---- MODULE Spec2Model ----
(***************************************************************************)
(* The two notebooks of the repository, zeus_Parameter_Inference.ipynb and *)
(* arianna_Model_Selection.ipynb, as one state machine: the kernel's       *)
(* globals, the position in the notebook, the global random stream, and    *)
(* the pure functions the cells define.                                    *)
(*                                                                         *)
(* Numbers.  Floats are carried in fixed point: a parameter, a time or an  *)
(* observed value x is the integer 1000*x (SCALE).  A log-probability is   *)
(* carried in units of 1/(2*SCALE^2), so that the factor -0.5 of the       *)
(* likelihood is exact.  A float result is a record [kind, v] with kind    *)
(* "fin", "-inf" or "nan".                                                 *)
(***************************************************************************)
EXTENDS Integers, Sequences, FiniteSets

VARIABLES
    nb,        \* which notebook the kernel runs: "zeus" or "arianna"
    pc,        \* index of the next code cell to run, in notebook order
    err,       \* "ok", or the exception that stopped the run
    runs,      \* how many passes over the notebook have been started
    rng,       \* position of numpy's global random stream
    env,       \* the kernel's globals: [name, stage of the cell that bound it]
    trace,     \* stages of the cells run so far in this pass
    flows,     \* <<reader stage, producer stage>> of every global read so far
    n_data,    \* the observation count the generator cell is run with
    t, y, yerr,\* the observation set (globals t, y, yerr)
    generated, \* observation sets <<t, y>> completed generator runs have produced
    calls,     \* [fn, len]: every call of a model/prior/likelihood function so far
    samplers,  \* [name, nwalkers, ndim]: every sampler constructed so far
    shapes,    \* array-valued globals: [name, shape]
    obsSeen,   \* [sampler, t, y, yerr]: the observation set each sampler run evaluated against
    results_x, \* results.x, the optimizer's result (<<>>: unbound)
    walkers,   \* [name, row]: the rows of the globals start, start_A, start_B
    handed,    \* [sampler, row]: every initial walker position given to a run_mcmc
    fn, arg, res \* last pure function applied, its argument, its result

vars == <<nb, pc, err, runs, rng, env, trace, flows, n_data, t, y, yerr,
          generated, calls, samplers, shapes, obsSeen, results_x, walkers, handed,
          fn, arg, res>>

pipeVars == <<nb, pc, err, runs, rng, env, trace, flows, n_data,
              generated, calls, samplers, shapes, obsSeen, results_x, walkers, handed>>

----------------------------------------------------------------------------
(* Bounds of the model *)

\* largest observation count followed
MaxData == 2
\* period of the modelled random stream
RngPeriod == 7
\* passes over a notebook (a second pass is "Run All" on a used kernel)
MaxRuns == 2

----------------------------------------------------------------------------
(* Fixed-point floats *)

SCALE == 1000

Fin(v) == [kind |-> "fin", v |-> v]
NegInf == [kind |-> "-inf", v |-> 0]
NaN == [kind |-> "nan", v |-> 0]

\* np.isfinite
isfinite(x) == x.kind = "fin"

\* float addition on the values that occur: nan absorbs, then -inf
fadd(a, b) ==
    IF a.kind = "nan" \/ b.kind = "nan" THEN NaN
    ELSE IF a.kind = "-inf" \/ b.kind = "-inf" THEN NegInf
    ELSE Fin(a.v + b.v)

Abs(x) == IF x < 0 THEN -x ELSE x

\* np.sin of a phase given in thousandths of a turn, result in thousandths.
\* In fixed point: Bhaskara's rational form 4w/(312500 - w), w = p(500 - p) on the
\* first half turn (exact at 0, 1/12, 1/4, 5/12, 1/2 turn), odd on the second half.
SinHalf(p) == (4000 * (p * (500 - p))) \div (312500 - p * (500 - p))
SinTurn(ph) ==
    LET p == ph % SCALE
    IN IF p <= 500 THEN SinHalf(p) ELSE -SinHalf(p - 500)

----------------------------------------------------------------------------
(* Model definitions *)

\* A * np.sin((t / P + t0) * 2 * np.pi) + B at one time tt.
\* t / 0 is +-inf or nan in numpy and its sine is nan.
sine_at(params, tt) ==
    LET A == params[1]
        B == params[2]
        P == params[3]
        t0 == params[4]
    IN IF P = 0 THEN NaN
       ELSE Fin((A * SinTurn((tt * SCALE) \div P + t0)) \div SCALE + B)

\* sine_model(params, t), vectorised over the sequence ts
sine_model(params, ts) == [i \in 1..Len(ts) |-> sine_at(params, ts[i])]

model_A(params, ts) == [i \in 1..Len(ts) |-> sine_at(params, ts[i])]

\* 0 * t + B
model_B(params, ts) == [i \in 1..Len(ts) |-> Fin(0 * ts[i] + params[1])]

----------------------------------------------------------------------------
(* Prior, likelihood, posterior *)

log_prior_strict(params) ==
    LET A == params[1]
        B == params[2]
        P == params[3]
        t0 == params[4]
    IN IF Abs(B) >= 10000 \/ A <= 100 \/ A >= 100000 \/ P <= 300 \/ P >= 10000
          \/ t0 <= 0 \/ t0 >= 1000
       THEN NegInf
       ELSE Fin(0)

log_prior(params) ==
    LET A == params[1]
        B == params[2]
        P == params[3]
        t0 == params[4]
    IN IF Abs(B) > 10000 \/ A < 100 \/ A > 100000 \/ P < 300 \/ P > 10000
          \/ t0 < 0 \/ t0 > 1000
       THEN NegInf
       ELSE Fin(0)

log_prior_A(params) ==
    LET A == params[1]
        B == params[2]
        P == params[3]
        t0 == params[4]
    IN IF Abs(B) > 10000 \/ A < 100 \/ A > 100000 \/ P < 300 \/ P > 10000
          \/ t0 < 0 \/ t0 > 1000
       THEN NegInf
       ELSE Fin(0)

\* the offset prior with np.abs forgotten
log_prior_B_onesided(params) ==
    LET B == params[1]
    IN IF B > 10000 THEN NegInf ELSE Fin(0)

log_prior_B(params) ==
    LET B == params[1]
    IN IF Abs(B) > 10000 THEN NegInf ELSE Fin(0)

\* ((y_model - y) / yerr)**2 for one observation, in units of 1/SCALE^2
sqres(ym, yi, sigma) ==
    LET r == ((ym - yi) * SCALE) \div sigma
    IN r * r

\* (...).sum() over the observations, nan if any prediction is nan
RECURSIVE sumsq(_, _, _, _)
sumsq(ym, ys, sigma, i) ==
    IF i = 0 THEN Fin(0)
    ELSE IF ym[i].kind = "nan" THEN NaN
    ELSE fadd(sumsq(ym, ys, sigma, i - 1), Fin(sqres(ym[i].v, ys[i], sigma)))

\* -0.5 * s, in units of 1/(2*SCALE^2)
neghalf(s) == IF s.kind = "nan" THEN NaN ELSE Fin(-s.v)

\* the likelihood with the term log(2*pi*sigma^2) of the notebook's formula kept:
\* 3675754 is 2*SCALE^2 * log(2*pi) at sigma = 1.0
loglike_normalised(ym, ys, sigma) ==
    LET s == sumsq(ym, ys, sigma, Len(ys))
    IN IF s.kind = "nan" THEN NaN ELSE Fin(-(s.v + Len(ys) * 3675754))

\* loglike = -0.5 * (((y_model - y) / yerr)**2).sum()
loglike(ym, ys, sigma) == neghalf(sumsq(ym, ys, sigma, Len(ys)))

log_like(params) == loglike(sine_model(params, t), y, yerr)

log_like_A(params) == loglike(model_A(params, t), y, yerr)

log_like_B(params) == loglike(model_B(params, t), y, yerr)

\* the posterior with the likelihood computed before the prior is tested
log_post_eager(params) ==
    LET lp == log_prior(params)
        ll == log_like(params)
    IN [val |-> fadd(lp, ll), evaluated |-> <<"log_prior", "log_like">>]

\* log_post: its value and the functions it evaluated, in order
log_post(params) ==
    LET lp == log_prior(params)
    IN IF ~isfinite(lp)
       THEN [val |-> NegInf, evaluated |-> <<"log_prior">>]
       ELSE [val |-> fadd(lp, log_like(params)),
             evaluated |-> <<"log_prior", "log_like">>]

----------------------------------------------------------------------------
(* The pure functions applied to inputs drawn from bounded sets *)

\* components of 4-vectors given to the priors: each bound, one unit either side, an interior point
PriorA == {99, 100, 1000, 100000, 100001}
PriorB == {-10001, -10000, 0, 10000, 10001}
PriorP == {299, 300, 3000, 10000, 10001}
PriorT0 == {-1, 0, 400, 1000, 1001}
PriorVecs == {<<a, b, p, z>> : a \in PriorA, b \in PriorB, p \in PriorP, z \in PriorT0}

\* components of 4-vectors given to the likelihood and the posterior
LikeA == {99, 100, 1000, 4300}
LikeB == {-10001, 0, 1000, 10000}
LikeP == {0, 299, 300, 3100, 10001}
LikeT0 == {-1, 0, 250, 400, 1001}
LikeVecs == {<<a, b, p, z>> : a \in LikeA, b \in LikeB, p \in LikeP, z \in LikeT0}

\* 1-vectors of the constant-offset model
OffsetVecs == {<<b>> : b \in {-10001, -10000, 0, 1000, 10000, 10001}}

\* observation sets: up to MaxData times in [0, 5) and values
ObsTimes == {0, 775}
ObsValues == {1000, 5300}
ObsSets ==
    UNION {[1..n -> ObsTimes] \X [1..n -> ObsValues] : n \in 0..MaxData}

NoRes == [val |-> NaN, evaluated |-> <<>>]

InitFn ==
    /\ nb = "zeus" /\ pc = 1 /\ err = "ok" /\ runs = 1 /\ rng = 0
    /\ env = {} /\ trace = <<>> /\ flows = {}
    /\ generated = {} /\ calls = {} /\ samplers = {} /\ shapes = {}
    /\ obsSeen = {}
    /\ results_x = <<>> /\ walkers = {} /\ handed = {}
    /\ \E o \in ObsSets : t = o[1] /\ y = o[2] /\ n_data = Len(o[1])
    /\ yerr = SCALE
    /\ fn = "none" /\ arg = <<>> /\ res = NoRes

\* one application per run: the functions are pure, so a run applies one of them once
Apply(name, x, r) ==
    /\ fn = "none"
    /\ fn' = name /\ arg' = x /\ res' = r
    /\ UNCHANGED <<t, y, yerr>>
    /\ UNCHANGED pipeVars

EvalLogPrior == \E x \in PriorVecs :
    Apply("log_prior", x, [val |-> log_prior(x), evaluated |-> <<"log_prior">>])

EvalLogPriorA == \E x \in PriorVecs :
    Apply("log_prior_A", x, [val |-> log_prior_A(x), evaluated |-> <<"log_prior_A">>])

EvalLogPriorB == \E x \in OffsetVecs :
    Apply("log_prior_B", x, [val |-> log_prior_B(x), evaluated |-> <<"log_prior_B">>])

EvalLogLike == \E x \in LikeVecs :
    Apply("log_like", x, [val |-> log_like(x), evaluated |-> <<"log_like">>])

EvalLogLikeA == \E x \in LikeVecs :
    Apply("log_like_A", x, [val |-> log_like_A(x), evaluated |-> <<"log_like_A">>])

EvalLogLikeB == \E x \in OffsetVecs :
    Apply("log_like_B", x, [val |-> log_like_B(x), evaluated |-> <<"log_like_B">>])

EvalLogPost == \E x \in LikeVecs :
    Apply("log_post", x, log_post(x))

NextFn ==
    \/ EvalLogPrior
    \/ EvalLogPriorA
    \/ EvalLogPriorB
    \/ EvalLogLike
    \/ EvalLogLikeA
    \/ EvalLogLikeB
    \/ EvalLogPost

SpecFn == InitFn /\ [][NextFn]_vars

----------------------------------------------------------------------------
(* The declared prior bounds, from the comments of log_prior *)

A_min == 100
A_max == 100000
B_max == 10000
P_min == 300
P_max == 10000
t0_min == 0
t0_max == 1000

InBounds4(x) ==
    /\ A_min <= x[1] /\ x[1] <= A_max
    /\ -B_max <= x[2] /\ x[2] <= B_max
    /\ P_min <= x[3] /\ x[3] <= P_max
    /\ t0_min <= x[4] /\ x[4] <= t0_max

StrictlyInside4(x) ==
    /\ A_min < x[1] /\ x[1] < A_max
    /\ -B_max < x[2] /\ x[2] < B_max
    /\ P_min < x[3] /\ x[3] < P_max
    /\ t0_min < x[4] /\ x[4] < t0_max

InBounds1(x) == -B_max <= x[1] /\ x[1] <= B_max

Range(q) == {q[i] : i \in 1..Len(q)}

----------------------------------------------------------------------------
(* Claims about the pure functions, checked under SpecFn *)

\* C1: log_post(params) is log_prior(params) + log_like(params) when the prior is
\* finite; when the prior is -inf it is -inf and log_like has not been evaluated:
\* the prior is evaluated and tested first.
C1_PosteriorContract ==
    fn = "log_post" =>
        LET lp == log_prior(arg)
        IN /\ res.evaluated[1] = "log_prior"
           /\ isfinite(lp) => res.val = fadd(lp, log_like(arg))
           /\ lp = NegInf =>
                 /\ res.val = NegInf
                 /\ "log_like" \notin Range(res.evaluated)

\* a rejected vector whose likelihood would be nan (P = 0), on a non-empty observation set
C1_Witness ==
    /\ fn = "log_post" /\ arg[3] = 0 /\ Len(t) >= 1
    /\ res.val = NegInf /\ res.evaluated = <<"log_prior">>

\* C2: each prior returns -inf, as a value, for a vector with a component outside
\* its closed declared interval, and the constant 0.0 for every vector inside.
C2_PriorContract ==
    /\ fn \in {"log_prior", "log_prior_A"} =>
          res.val = IF InBounds4(arg) THEN Fin(0) ELSE NegInf
    /\ fn = "log_prior_B" =>
          res.val = IF InBounds1(arg) THEN Fin(0) ELSE NegInf

\* the offset prior rejecting a value below -10
C2_Witness ==
    /\ fn = "log_prior_B" /\ arg[1] < -B_max /\ res.val = NegInf

\* sum over the index set I of the squared standardised residuals
RECURSIVE SumResiduals(_, _)
SumResiduals(ym, I) ==
    IF I = {} THEN 0
    ELSE LET i == CHOOSE j \in I : TRUE
             r == ((ym[i].v - y[i]) * SCALE) \div yerr
         IN r * r + SumResiduals(ym, I \ {i})

Prediction(name, x) ==
    IF name = "log_like" THEN sine_model(x, t)
    ELSE IF name = "log_like_A" THEN model_A(x, t)
    ELSE model_B(x, t)

\* C3: each likelihood is -0.5 times the sum over the observations of
\* ((model - y) / yerr)^2 with nothing added; so it is never positive, and it is 0
\* only when the prediction equals every observed value.  (A nan prediction, from
\* P = 0, makes the sum nan.)
C3_LikelihoodContract ==
    fn \in {"log_like", "log_like_A", "log_like_B"} =>
        LET ym == Prediction(fn, arg)
            I == 1..Len(t)
        IN IF \E i \in I : ym[i].kind = "nan"
           THEN res.val = NaN
           ELSE /\ res.val = Fin(-SumResiduals(ym, I))
                /\ res.val.v <= 0
                /\ res.val.v = 0 => \A i \in I : ym[i].v = y[i]

\* a sinusoid that misses two observations: a strictly negative likelihood
C3_Witness ==
    /\ fn = "log_like" /\ Len(t) >= 2 /\ res.val.kind = "fin" /\ res.val.v < 0

\* C10 as claimed: log_prior is finite only strictly inside every interval.
C10_OpenSupport ==
    fn = "log_prior" => (isfinite(res.val) => StrictlyInside4(arg))

\* C10 as amended: log_prior is finite exactly on the closed box; a vector inside
\* the box with a component equal to a bound has log_prior 0.0.
C10_ClosedSupport ==
    fn = "log_prior" =>
        /\ isfinite(res.val) <=> InBounds4(arg)
        /\ InBounds4(arg) /\ ~StrictlyInside4(arg) => res.val = Fin(0)

\* every component on a bound, and the prior is 0.0
C10_Witness ==
    /\ fn = "log_prior"
    /\ arg = <<A_min, -B_max, P_max, t0_min>>
    /\ res.val = Fin(0)

----------------------------------------------------------------------------
(* numpy's global random stream *)

\* the seed both notebooks set
Seed == 42

\* the generator without its np.random.seed call: the stream stays where it is
np_random_seed_forgotten(s, r) == r

\* np.random.seed(s) with the stream at position r: the stream restarts at s
np_random_seed(s, r) == s % RngPeriod

\* the stream's raw value at position k
Raw(k) == (5 * k + 3) % RngPeriod

\* a uniform draw on [0, 1) and a standard normal draw, at position k
uniform01(k) == (Raw(k % RngPeriod) * SCALE) \div RngPeriod
std_normal(k) == ((Raw(k % RngPeriod) % 3) - 1) * SCALE

\* np.random.uniform(lo, hi, size=n) from position r (n >= 0)
np_random_uniform(lo, hi, n, r) ==
    [i \in 1..n |-> lo + ((hi - lo) * uniform01(r + i - 1)) \div SCALE]

\* np.random.normal(mean, sigma) over the sequence mean, from position r
np_random_normal(mean, sigma, r) ==
    [i \in 1..Len(mean) |-> mean[i].v + (sigma * std_normal(r + i - 1)) \div SCALE]

\* the stream after k draws
advance(r, k) == (r + k) % RngPeriod

----------------------------------------------------------------------------
(* Constants of the notebooks *)

\* end of the time domain, t in [0, 5)
t_max == 5000
\* zeus: ndim, nwalkers; both: nsteps
ndim == 4
nwalkers == 10
nsteps == 1000
\* arianna
ntemps == 40
nwalkers_A == 4
ndim_A == 4
nwalkers_B == 4
\* ndim_B, had it been copied from model A's cell
ndim_B_as_A == ndim_A
ndim_B == 1
\* np.linspace(0.0, 5.0, 1000)
t_range_len == 1000

p_guess == <<10000, 2000, 4000, 500>>

params_true(n) ==
    IF n = "zeus" THEN <<4300, 1000, 3100, 400>> ELSE <<1000, 1000, 3000, 0>>

----------------------------------------------------------------------------
(* The cells of the two notebooks, in notebook order *)

NumCells(n) == IF n = "zeus" THEN 17 ELSE 15

\* the pipeline stage each code cell belongs to
CellStage(n, k) ==
    IF n = "zeus"
    THEN CASE k = 1 -> "setup"
           [] k = 2 -> "models"
           [] k \in {3, 4} -> "generator"
           [] k = 5 -> "diagnostics"
           [] k \in {6, 7, 8} -> "probability"
           [] k \in {9, 10, 11} -> "sampler"
           [] OTHER -> "diagnostics"
    ELSE CASE k = 1 -> "setup"
           [] k = 2 -> "models"
           [] k = 3 -> "generator"
           [] k = 4 -> "probability"
           [] k \in {5, 9} -> "sampler"
           [] OTHER -> "diagnostics"

\* the globals a cell binds
Writes(n, k) ==
    IF n = "zeus"
    THEN CASE k = 1 -> {"np", "plt", "zeus"}
           [] k = 2 -> {"sine_model"}
           [] k = 3 -> {"n_data", "t"}
           [] k = 4 -> {"params_true", "yerr", "y"}
           [] k = 6 -> {"log_prior"}
           [] k = 7 -> {"log_like"}
           [] k = 8 -> {"log_post"}
           [] k = 9 -> {"p_guess", "results"}
           [] k = 10 -> {"ndim", "nwalkers", "nsteps", "start"}
           [] k = 11 -> {"sampler"}
           [] k = 12 -> {"samples"}
           [] k = 13 -> {"labels"}
           [] k = 14 -> {"chain"}
           [] k = 16 -> {"t_range", "obs"}
           [] OTHER -> {}
    ELSE CASE k = 1 -> {"np", "plt", "arn"}
           [] k = 2 -> {"model_A", "model_B"}
           [] k = 3 -> {"n_data", "t", "params_true", "yerr", "y"}
           [] k = 4 -> {"log_prior_A", "log_prior_B", "log_like_A", "log_like_B"}
           [] k = 5 -> {"ntemps", "nwalkers", "ndim_A", "nsteps", "start_A", "sampler_A"}
           [] k = 6 -> {"samples_A"}
           [] k = 7 -> {"labels"}
           [] k = 8 -> {"logz_A"}
           [] k = 9 -> {"ntemps", "nwalkers", "ndim_B", "nsteps", "start_B", "sampler_B"}
           [] k = 10 -> {"samples_B"}
           [] k = 12 -> {"logz_B"}
           [] k = 13 -> {"K"}
           [] k = 14 -> {"t_range", "obs_A", "obs_B"}
           [] OTHER -> {}

\* the globals a cell reads that an earlier cell must have bound, those read by
\* the functions it calls included
ReadsInSource(n, k) ==
    IF n = "zeus"
    THEN CASE k = 3 -> {"np"}
           [] k = 4 -> {"np", "sine_model", "t"}
           [] k = 5 -> {"plt", "t", "y", "yerr"}
           [] k = 9 -> {"log_post", "log_prior", "log_like", "sine_model", "np",
                        "t", "y", "yerr"}
           [] k = 10 -> {"np", "results"}
           [] k = 11 -> {"zeus", "nwalkers", "ndim", "start", "nsteps", "log_post",
                         "log_prior", "log_like", "sine_model", "np", "t", "y", "yerr"}
           [] k = 12 -> {"sampler"}
           [] k = 13 -> {"plt", "ndim", "samples"}
           [] k = 14 -> {"sampler", "zeus", "labels", "params_true"}
           [] k = 15 -> {"np", "chain"}
           [] k = 16 -> {"np", "chain", "sine_model", "yerr"}
           [] k = 17 -> {"plt", "np", "t_range", "obs", "t", "y", "yerr"}
           [] OTHER -> {}
    ELSE CASE k = 3 -> {"np", "plt", "model_A"}
           [] k = 5 -> {"np", "arn", "log_like_A", "log_prior_A", "model_A",
                        "t", "y", "yerr"}
           [] k = 6 -> {"sampler_A"}
           [] k = 7 -> {"plt", "ndim_A", "samples_A"}
           [] k = 8 -> {"sampler_A"}
           [] k = 9 -> {"np", "arn", "log_like_B", "log_prior_B", "model_B",
                        "t", "y", "yerr"}
           [] k = 10 -> {"sampler_B"}
           [] k = 11 -> {"plt", "samples_B"}
           [] k = 12 -> {"sampler_B"}
           [] k = 13 -> {"np", "logz_A", "logz_B"}
           [] k = 14 -> {"np", "samples_A", "ndim_A", "model_A", "samples_B",
                         "ndim_B", "model_B", "yerr"}
           [] k = 15 -> {"plt", "np", "t_range", "obs_A", "obs_B", "t", "y", "yerr"}
           [] OTHER -> {}

\* the reads, had model B's walkers been started from model A's chain
ReadsSeededFromA(n, k) ==
    IF n = "arianna" /\ k = 9
    THEN ReadsInSource(n, k) \cup {"samples_A"}
    ELSE ReadsInSource(n, k)

Reads(n, k) == ReadsInSource(n, k)

Bound(e) == {b.name : b \in e}
StageOf(e, x) == (CHOOSE b \in e : b.name = x).stage

\* the bookkeeping of running code cell k of notebook n, binding the names W
Book(n, k, W) ==
    /\ nb = n /\ pc = k /\ err = "ok"
    /\ Reads(n, k) \subseteq Bound(env)
    /\ env' = {b \in env : b.name \notin W}
                \cup {[name |-> x, stage |-> CellStage(n, k)] : x \in W}
    /\ trace' = Append(trace, CellStage(n, k))
    /\ flows' = flows \cup {<<CellStage(n, k), StageOf(env, x)>> : x \in Reads(n, k)}
    /\ UNCHANGED <<nb, runs, n_data, fn, arg, res>>

\* a cell that runs to its end
Run(n, k) == Book(n, k, Writes(n, k)) /\ pc' = k + 1 /\ err' = err

\* a cell of definitions, imports, prints or plots: no other effect
Plain(n, k) ==
    /\ Run(n, k)
    /\ UNCHANGED <<rng, t, y, yerr, generated, calls, samplers, shapes, obsSeen, results_x, walkers, handed>>

\* rebinding array names to shapes
SetShapes(sh, new) == {b \in sh : b.name \notin Bound(new)} \cup new
ShapeOf(sh, x) == (CHOOSE b \in sh : b.name = x).shape
LastAxis(shape) == shape[Len(shape)]

\* the calls made when f is called with a vector of length n
Callees(f) ==
    CASE f = "log_post" -> {"log_post", "log_prior", "log_like", "sine_model"}
      [] f = "log_like" -> {"log_like", "sine_model"}
      [] f = "log_like_A" -> {"log_like_A", "model_A"}
      [] f = "log_like_B" -> {"log_like_B", "model_B"}
      [] OTHER -> {f}
CallsOf(f, n) == {[fn |-> g, len |-> n] : g \in Callees(f)}

----------------------------------------------------------------------------
(* zeus_Parameter_Inference.ipynb, one action per code cell *)

\* import zeus, numpy, matplotlib
Zeus_import == Plain("zeus", 1)

\* def sine_model
Zeus_def_sine_model == Plain("zeus", 2)

\* np.random.seed(42); n_data; t = np.random.uniform(0, 5, size=n_data).
\* A negative size makes numpy raise ValueError: n_data is bound, t is not.
Zeus_draw_t ==
    LET r0 == np_random_seed(Seed, rng)
    IN /\ IF n_data < 0
          THEN /\ Book("zeus", 3, {"n_data"})
               /\ err' = "ValueError" /\ pc' = pc
               /\ rng' = r0 /\ t' = t
          ELSE /\ Run("zeus", 3)
               /\ t' = np_random_uniform(0, t_max, n_data, r0)
               /\ rng' = advance(r0, n_data)
       /\ UNCHANGED <<y, yerr, generated, calls, samplers, shapes, obsSeen, results_x, walkers, handed>>

\* params_true; yerr = 1.0; y = np.random.normal(sine_model(params_true, t), yerr)
Zeus_draw_y ==
    /\ Run("zeus", 4)
    /\ yerr' = SCALE
    /\ y' = np_random_normal(sine_model(params_true("zeus"), t), SCALE, rng)
    /\ rng' = advance(rng, Len(t))
    /\ generated' = generated \cup {<<t, y'>>}
    /\ calls' = calls \cup CallsOf("sine_model", Len(params_true("zeus")))
    /\ UNCHANGED <<t, samplers, shapes, obsSeen, results_x, walkers, handed>>

\* plt.errorbar(x=t, y=y, yerr=yerr)
Zeus_plot_data == Plain("zeus", 5)

\* def log_prior, def log_like, def log_post
Zeus_def_log_prior == Plain("zeus", 6)
Zeus_def_log_like == Plain("zeus", 7)
Zeus_def_log_post == Plain("zeus", 8)

\* 0.001, the scale of the walkers' scatter, and 0.5, the centre of arianna's walkers
start_scatter == 1
start_centre == 500

\* centre + 0.001 * np.random.randn(rows, d), drawn from position r of the stream:
\* the set of its rows (centre is broadcast over the rows)
scattered(centre, rows, d, r) ==
    {[j \in 1..d |->
        centre[j] + (start_scatter * std_normal(r + (i - 1) * d + j - 1)) \div SCALE]
     : i \in 1..rows}

\* rebinding a start array to the set of rows R
SetWalkers(w, x, R) == {b \in w : b.name # x} \cup {[name |-> x, row |-> v] : v \in R}
RowsOf(w, x) == {b.row : b \in {c \in w : c.name = x}}

\* points the minimisation is followed to: the initial guess, the true parameters,
\* points on and next to a bound of t0, A and P, and a point outside the bounds
MinimizePoints ==
    {p_guess, <<4300, 1000, 3100, 400>>,
     <<4300, 1000, 3100, 0>>, <<4300, 1000, 3100, 1>>, <<4300, 1000, 3100, 1000>>,
     <<100, 1000, 3100, 400>>, <<4300, 1000, 10000, 400>>,
     <<4300, 1000, 3100, -1>>}

\* what minimize(-log_post, p_guess, 'Nelder-Mead') can return: the method evaluates
\* the objective at p_guess and returns the best vertex it has met, so the objective
\* at results.x is finite and no larger than at p_guess
minimize_results ==
    {x \in MinimizePoints :
        LET f == log_post(x).val
            f0 == log_post(p_guess).val
        IN isfinite(f0) /\ isfinite(f) /\ f.v >= f0.v}

\* results = minimize(lambda x : -log_post(x), p_guess, method='Nelder-Mead'):
\* the objective is called with vectors of p_guess's length; results.x has that length
\* and results.x is one of the points minimize can return
Zeus_minimize ==
    /\ Run("zeus", 9)
    /\ calls' = calls \cup CallsOf("log_post", Len(p_guess))
    /\ shapes' = SetShapes(shapes, {[name |-> "results.x", shape |-> <<Len(p_guess)>>]})
    /\ results_x' \in minimize_results
    /\ UNCHANGED <<rng, t, y, yerr, generated, samplers, obsSeen, walkers, handed>>

\* numpy broadcasting of two axis lengths (0: the shapes do not broadcast)
Broadcast(a, b) == IF a = b THEN a ELSE IF a = 1 THEN b ELSE IF b = 1 THEN a ELSE 0

\* ndim, nwalkers, nsteps; start = results.x + 0.001 * np.random.randn(nwalkers, ndim)
Zeus_start ==
    /\ Run("zeus", 10)
    /\ shapes' = SetShapes(shapes,
          {[name |-> "start",
            shape |-> <<nwalkers, Broadcast(LastAxis(ShapeOf(shapes, "results.x")), ndim)>>]})
    /\ rng' = advance(rng, nwalkers * ndim)
    /\ walkers' = SetWalkers(walkers, "start", scattered(results_x, nwalkers, ndim, rng))
    /\ UNCHANGED <<t, y, yerr, generated, calls, samplers, obsSeen, results_x, handed>>

\* sampler = zeus.EnsembleSampler(nwalkers, ndim, log_post); sampler.run_mcmc(start, nsteps):
\* the sampler calls log_post on the rows of start and on its own ndim-vectors, against
\* the globals t, y, yerr, and consumes an amount of the random stream it alone decides
Zeus_run_mcmc ==
    /\ Run("zeus", 11)
    /\ samplers' = samplers \cup {[name |-> "sampler", nwalkers |-> nwalkers, ndim |-> ndim]}
    /\ calls' = calls \cup CallsOf("log_post", LastAxis(ShapeOf(shapes, "start")))
                      \cup CallsOf("log_post", ndim)
    /\ obsSeen' = obsSeen \cup {[sampler |-> "sampler", t |-> t, y |-> y, yerr |-> yerr]}
    /\ shapes' = SetShapes(shapes,
          {[name |-> "sampler.chain", shape |-> <<nsteps, nwalkers, ndim>>]})
    /\ \E r \in 0..(RngPeriod - 1) : rng' = r
    /\ handed' = handed \cup {[sampler |-> "sampler", row |-> v] : v \in RowsOf(walkers, "start")}
    /\ UNCHANGED <<t, y, yerr, generated, results_x, walkers>>

\* samples = sampler.get_chain()
Zeus_get_chain ==
    /\ Run("zeus", 12)
    /\ shapes' = SetShapes(shapes,
          {[name |-> "samples", shape |-> ShapeOf(shapes, "sampler.chain")]})
    /\ UNCHANGED <<rng, t, y, yerr, generated, calls, samplers, obsSeen, results_x, walkers, handed>>

\* the trace plots of samples[:,:,i]
Zeus_trace_plot == Plain("zeus", 13)

\* chain = sampler.get_chain(flat=True, discard=0.5, thin=7); zeus.cornerplot(...):
\* the second half of the steps, every 7th, walkers flattened into rows of ndim
Zeus_cornerplot ==
    LET c == ShapeOf(shapes, "sampler.chain")
        kept == ((c[1] - c[1] \div 2) + 6) \div 7
    IN /\ Run("zeus", 14)
       /\ shapes' = SetShapes(shapes, {[name |-> "chain", shape |-> <<kept * c[2], c[3]>>]})
       /\ UNCHANGED <<rng, t, y, yerr, generated, calls, samplers, obsSeen, results_x, walkers, handed>>

\* np.mean(chain, axis=0), np.std(chain, axis=0)
Zeus_stats == Plain("zeus", 15)

\* for s in chain: m = sine_model(s, t_range); obs.append(np.random.normal(m, yerr))
Zeus_predictive_clobber ==
    LET c == ShapeOf(shapes, "chain")
    IN /\ Run("zeus", 16)
       /\ calls' = calls \cup (IF c[1] > 0 THEN CallsOf("sine_model", c[2]) ELSE {})
       /\ rng' = advance(rng, c[1] * t_range_len)
       /\ shapes' = SetShapes(shapes, {[name |-> "t_range", shape |-> <<t_range_len>>],
                                       [name |-> "obs", shape |-> <<c[1], t_range_len>>]})
       /\ y' = [i \in 1..Len(y) |-> std_normal(rng + i)]
       /\ UNCHANGED <<t, yerr, generated, samplers, obsSeen, results_x, walkers, handed>>

Zeus_predictive ==
    LET c == ShapeOf(shapes, "chain")
    IN /\ Run("zeus", 16)
       /\ calls' = calls \cup (IF c[1] > 0 THEN CallsOf("sine_model", c[2]) ELSE {})
       /\ rng' = advance(rng, c[1] * t_range_len)
       /\ shapes' = SetShapes(shapes, {[name |-> "t_range", shape |-> <<t_range_len>>],
                                       [name |-> "obs", shape |-> <<c[1], t_range_len>>]})
       /\ UNCHANGED <<t, y, yerr, generated, samplers, obsSeen, results_x, walkers, handed>>

\* the plot of the 95% intervals over the data
Zeus_plot_predictive == Plain("zeus", 17)

----------------------------------------------------------------------------
(* arianna_Model_Selection.ipynb, one action per code cell *)

\* import arianna, numpy, matplotlib
Arn_import == Plain("arianna", 1)

\* def model_A, def model_B
Arn_def_models == Plain("arianna", 2)

\* np.random.seed(42); n_data; t = uniform(0, 5, size=n_data); params_true; yerr = 1.0;
\* y = np.random.normal(model_A(params_true, t), yerr); the plot of the data.
\* A negative size makes numpy raise ValueError: n_data is bound, nothing after it.
Arn_generate ==
    LET r0 == np_random_seed(Seed, rng)
        ts == np_random_uniform(0, t_max, n_data, r0)
        r1 == advance(r0, n_data)
    IN IF n_data < 0
       THEN /\ Book("arianna", 3, {"n_data"})
            /\ err' = "ValueError" /\ pc' = pc
            /\ rng' = r0
            /\ UNCHANGED <<t, y, yerr, generated, calls, samplers, shapes, obsSeen, results_x, walkers, handed>>
       ELSE /\ Run("arianna", 3)
            /\ t' = ts
            /\ yerr' = SCALE
            /\ y' = np_random_normal(model_A(params_true("arianna"), ts), SCALE, r1)
            /\ rng' = advance(r1, n_data)
            /\ generated' = generated \cup {<<t', y'>>}
            /\ calls' = calls \cup CallsOf("model_A", Len(params_true("arianna")))
            /\ UNCHANGED <<samplers, shapes, obsSeen, results_x, walkers, handed>>

\* def log_prior_A, log_prior_B, log_like_A, log_like_B
Arn_def_prob == Plain("arianna", 4)

\* ntemps, nwalkers, ndim_A, nsteps; start_A = 0.5 + 0.001 * randn(ntemps, nwalkers, ndim_A);
\* sampler_A = arn.ReplicaExchangeSampler(ntemps, nwalkers, ndim_A, log_like_A, log_prior_A);
\* sampler_A.run_mcmc(start_A, nsteps)
Arn_run_A ==
    LET start == <<ntemps, nwalkers_A, ndim_A>>
    IN /\ Run("arianna", 5)
       /\ samplers' = samplers \cup
             {[name |-> "sampler_A", nwalkers |-> nwalkers_A, ndim |-> ndim_A]}
       /\ calls' = calls \cup CallsOf("log_like_A", LastAxis(start))
                         \cup CallsOf("log_prior_A", LastAxis(start))
                         \cup CallsOf("log_like_A", ndim_A)
                         \cup CallsOf("log_prior_A", ndim_A)
       /\ obsSeen' = obsSeen \cup {[sampler |-> "sampler_A", t |-> t, y |-> y, yerr |-> yerr]}
       /\ shapes' = SetShapes(shapes,
             {[name |-> "start_A", shape |-> start],
              [name |-> "sampler_A.chain", shape |-> <<nsteps, ntemps, nwalkers_A, ndim_A>>]})
       /\ \E r \in 0..(RngPeriod - 1) : rng' = r
       /\ LET R == scattered([j \in 1..ndim_A |-> start_centre], ntemps * nwalkers_A, ndim_A, rng)
          IN /\ walkers' = SetWalkers(walkers, "start_A", R)
             /\ handed' = handed \cup {[sampler |-> "sampler_A", row |-> v] : v \in R}
       /\ UNCHANGED <<t, y, yerr, generated, results_x>>

\* samples_A = sampler_A.get_chain()
Arn_get_chain_A ==
    /\ Run("arianna", 6)
    /\ shapes' = SetShapes(shapes,
          {[name |-> "samples_A", shape |-> ShapeOf(shapes, "sampler_A.chain")]})
    /\ UNCHANGED <<rng, t, y, yerr, generated, calls, samplers, obsSeen, results_x, walkers, handed>>

\* the trace plots of samples_A[:,0,:,i]
Arn_trace_plot_A == Plain("arianna", 7)

\* logz_A = sampler_A.get_logz()
Arn_logz_A == Plain("arianna", 8)

\* the same cell for model B, with ndim_B, log_like_B, log_prior_B
Arn_run_B ==
    LET start == <<ntemps, nwalkers_B, ndim_B>>
    IN /\ Run("arianna", 9)
       /\ samplers' = samplers \cup
             {[name |-> "sampler_B", nwalkers |-> nwalkers_B, ndim |-> ndim_B]}
       /\ calls' = calls \cup CallsOf("log_like_B", LastAxis(start))
                         \cup CallsOf("log_prior_B", LastAxis(start))
                         \cup CallsOf("log_like_B", ndim_B)
                         \cup CallsOf("log_prior_B", ndim_B)
       /\ obsSeen' = obsSeen \cup {[sampler |-> "sampler_B", t |-> t, y |-> y, yerr |-> yerr]}
       /\ shapes' = SetShapes(shapes,
             {[name |-> "start_B", shape |-> start],
              [name |-> "sampler_B.chain", shape |-> <<nsteps, ntemps, nwalkers_B, ndim_B>>]})
       /\ \E r \in 0..(RngPeriod - 1) : rng' = r
       /\ LET R == scattered([j \in 1..ndim_B |-> start_centre], ntemps * nwalkers_B, ndim_B, rng)
          IN /\ walkers' = SetWalkers(walkers, "start_B", R)
             /\ handed' = handed \cup {[sampler |-> "sampler_B", row |-> v] : v \in R}
       /\ UNCHANGED <<t, y, yerr, generated, results_x>>

\* samples_B = sampler_B.get_chain()
Arn_get_chain_B ==
    /\ Run("arianna", 10)
    /\ shapes' = SetShapes(shapes,
          {[name |-> "samples_B", shape |-> ShapeOf(shapes, "sampler_B.chain")]})
    /\ UNCHANGED <<rng, t, y, yerr, generated, calls, samplers, obsSeen, results_x, walkers, handed>>

\* the trace plot of samples_B[:,0,:,0]
Arn_trace_plot_B == Plain("arianna", 11)

\* logz_B = sampler_B.get_logz()
Arn_logz_B == Plain("arianna", 12)

\* K = np.exp(logz_A - logz_B)
Arn_bayes_factor == Plain("arianna", 13)

\* samples[:,0].reshape(-1, d): rows of length d out of a (steps, temps, walkers, dim) chain
ReshapedRows(c, d) == <<(c[1] * c[3] * c[4]) \div d, d>>

\* for s in samples_A[:,0].reshape(-1,ndim_A): model_A(s, t_range), np.random.normal(m, yerr);
\* for s in samples_B[:,0].reshape(-1,ndim_B): model_B(s, t_range), np.random.normal(m, yerr)
Arn_predictive ==
    LET ra == ReshapedRows(ShapeOf(shapes, "samples_A"), ndim_A)
        rb == ReshapedRows(ShapeOf(shapes, "samples_B"), ndim_B)
    IN /\ Run("arianna", 14)
       /\ calls' = calls \cup (IF ra[1] > 0 THEN CallsOf("model_A", ra[2]) ELSE {})
                         \cup (IF rb[1] > 0 THEN CallsOf("model_B", rb[2]) ELSE {})
       /\ rng' = advance(rng, (ra[1] + rb[1]) * t_range_len)
       /\ shapes' = SetShapes(shapes, {[name |-> "t_range", shape |-> <<t_range_len>>],
                                       [name |-> "obs_A", shape |-> <<ra[1], t_range_len>>],
                                       [name |-> "obs_B", shape |-> <<rb[1], t_range_len>>]})
       /\ UNCHANGED <<t, y, yerr, generated, samplers, obsSeen, results_x, walkers, handed>>

\* the plot of both models' 95% intervals over the data
Arn_plot_predictive == Plain("arianna", 15)

----------------------------------------------------------------------------
(* The notebook run *)

\* "Run All" again on the same kernel: the globals and the random stream are kept
RunAllAgain ==
    /\ err = "ok" /\ pc = NumCells(nb) + 1 /\ runs < MaxRuns
    /\ pc' = 1 /\ runs' = runs + 1 /\ trace' = <<>>
    /\ UNCHANGED <<results_x, walkers, handed>>
    /\ UNCHANGED <<nb, err, rng, env, flows, n_data, t, y, yerr, generated, calls,
                   samplers, shapes, obsSeen, fn, arg, res>>

\* a fresh kernel: nothing bound, the random stream seeded from the system's entropy
Init ==
    /\ nb \in {"zeus", "arianna"}
    /\ pc = 1 /\ err = "ok" /\ runs = 1
    /\ rng \in 0..(RngPeriod - 1)
    /\ env = {} /\ trace = <<>> /\ flows = {}
    /\ n_data \in -1..MaxData
    /\ t = <<>> /\ y = <<>> /\ yerr = 0
    /\ generated = {} /\ calls = {} /\ samplers = {} /\ shapes = {} /\ obsSeen = {}
    /\ results_x = <<>> /\ walkers = {} /\ handed = {}
    /\ fn = "none" /\ arg = <<>> /\ res = NoRes

Next ==
    \/ Zeus_import
    \/ Zeus_def_sine_model
    \/ Zeus_draw_t
    \/ Zeus_draw_y
    \/ Zeus_plot_data
    \/ Zeus_def_log_prior
    \/ Zeus_def_log_like
    \/ Zeus_def_log_post
    \/ Zeus_minimize
    \/ Zeus_start
    \/ Zeus_run_mcmc
    \/ Zeus_get_chain
    \/ Zeus_trace_plot
    \/ Zeus_cornerplot
    \/ Zeus_stats
    \/ Zeus_predictive
    \/ Zeus_plot_predictive
    \/ Arn_import
    \/ Arn_def_models
    \/ Arn_generate
    \/ Arn_def_prob
    \/ Arn_run_A
    \/ Arn_get_chain_A
    \/ Arn_trace_plot_A
    \/ Arn_logz_A
    \/ Arn_run_B
    \/ Arn_get_chain_B
    \/ Arn_trace_plot_B
    \/ Arn_logz_B
    \/ Arn_bayes_factor
    \/ Arn_predictive
    \/ Arn_plot_predictive
    \/ RunAllAgain

Spec == Init /\ [][Next]_vars

----------------------------------------------------------------------------
(* Claims about the notebook run, checked under Spec *)

\* the last cell of the Data Generator
GenLast(n) == IF n = "zeus" THEN 4 ELSE 3

GenDone == err = "ok" /\ pc > GenLast(nb)

\* the observation set as a function of the generator's inputs alone
ExpectedObs(n, count) ==
    LET r0 == Seed % RngPeriod
        ts == np_random_uniform(0, t_max, count, r0)
        mean == IF n = "zeus" THEN sine_model(params_true(n), ts)
                ELSE model_A(params_true(n), ts)
    IN <<ts, np_random_normal(mean, SCALE, advance(r0, count))>>

\* C4: every execution of the Data Generator with the same seed, count, time
\* domain, true parameters and noise level yields the same (t, y), wherever the
\* random stream stood when it started.
C4_Deterministic ==
    /\ generated \subseteq {ExpectedObs(nb, n_data)}
    /\ GenDone => <<t, y>> = ExpectedObs(nb, n_data)

\* the generator has run to its end a second time, on a kernel whose stream a
\* sampler and the predictive loop have consumed
C4_Witness ==
    /\ nb = "zeus" /\ runs = 2 /\ GenDone /\ Len(y) >= 2 /\ generated # {}

DeclaredDim(f) == IF f \in {"model_B", "log_prior_B", "log_like_B"} THEN 1 ELSE 4

\* C5: every call of a model, prior, likelihood or posterior function is given a
\* vector of the function's declared length (4, or 1 for model B's functions);
\* the samplers' dimensions and the last axis of their start positions agree.
C5_Dimensionality ==
    /\ \A c \in calls : c.len = DeclaredDim(c.fn)
    /\ \A s \in samplers : s.ndim = IF s.name = "sampler_B" THEN 1 ELSE 4
    /\ \A b \in shapes :
          /\ b.name \in {"start", "start_A"} => LastAxis(b.shape) = 4
          /\ b.name = "start_B" => LastAxis(b.shape) = 1

\* both predictive loops have run, and model_B was called with 1-vectors
C5_Witness ==
    /\ nb = "arianna" /\ pc = NumCells(nb) + 1
    /\ [fn |-> "model_B", len |-> 1] \in calls
    /\ [fn |-> "log_like_A", len |-> 4] \in calls

\* C6: once the generator has run, no later cell of the pass changes t, y or yerr,
\* and every sampler run has evaluated against the same observation set.
C6_ObservationsFrozen ==
    /\ [][GenDone => (t' = t /\ y' = y /\ yerr' = yerr)]_vars
    /\ [](\A a, b \in obsSeen : a.t = b.t /\ a.y = b.y /\ a.yerr = b.yerr)

\* both arianna samplers have run against a non-empty observation set
C6_Witness ==
    /\ nb = "arianna" /\ pc = NumCells(nb) + 1 /\ Len(y) >= 1
    /\ {o.sampler : o \in obsSeen} = {"sampler_A", "sampler_B"}

Stages == {"generator", "models", "probability", "sampler", "diagnostics"}

\* the order of the stages as claimed, and with the model definitions first
ClaimedOrder == <<"setup", "generator", "models", "probability", "sampler", "diagnostics">>
SourceOrder == <<"setup", "models", "generator", "probability", "sampler", "diagnostics">>

RankIn(order, s) == CHOOSE i \in 1..Len(order) : order[i] = s

\* every read is of a value bound by the same or an earlier stage
ForwardOnly(order) == \A f \in flows : RankIn(order, f[2]) <= RankIn(order, f[1])

\* stage s has run, then a later stage, then s again
Reentered(order, s) ==
    \E i, j, k \in 1..Len(trace) :
        /\ i < j /\ j < k
        /\ trace[i] = s /\ trace[k] = s
        /\ RankIn(order, trace[j]) > RankIn(order, s)

\* C7 as claimed: in the order Generator, Models, Probability Functions, Sampler,
\* Diagnostics no stage reads what a later stage produces, and no stage is
\* re-entered after a later stage has run.
C7_ForwardFlow ==
    /\ ForwardOnly(ClaimedOrder)
    /\ \A s \in Stages : ~Reentered(ClaimedOrder, s)

\* C7 as amended: in the order Models, Generator, Probability Functions, Sampler,
\* Diagnostics no stage reads what a later stage produces; no stage but the sampler
\* invocation is re-entered after a later stage has run, and in the zeus notebook
\* that one is not either.
C7_ForwardFlowSourceOrder ==
    /\ ForwardOnly(SourceOrder)
    /\ \A s \in Stages \ {"sampler"} : ~Reentered(SourceOrder, s)
    /\ nb = "zeus" => ~Reentered(SourceOrder, "sampler")

\* the arianna notebook at its end: the generator has called the model, and
\* model B's sampler has run after model A's diagnostics
C7_Witness ==
    /\ nb = "arianna" /\ pc = NumCells(nb) + 1
    /\ <<"generator", "models">> \in flows
    /\ Reentered(SourceOrder, "sampler")

\* C8: every sampler is constructed with at least twice as many walkers as
\* parameters.
C8_WalkersTwiceDim == \A s \in samplers : s.nwalkers >= 2 * s.ndim

\* C9: with a non-positive n_data the generator ends in an error: it produces no
\* observation set and no later cell runs.
C9_FailFast ==
    n_data <= 0 => (generated = {} /\ obsSeen = {} /\ pc <= GenLast(nb))

\* C11: every initial walker position given to a run_mcmc lies in the prior
\* support: the rows of start_A and start_B have log-prior 0.0, and so has every
\* row of zeus's start = results.x + 0.001 * randn, whose log-posterior is then
\* finite, whatever point the minimisation returned.
C11_StartInsideSupport ==
    \A h \in handed :
        /\ h.sampler = "sampler_A" => log_prior_A(h.row) = Fin(0)
        /\ h.sampler = "sampler_B" => log_prior_B(h.row) = Fin(0)
        /\ h.sampler = "sampler" =>
              log_prior(h.row) = Fin(0) /\ isfinite(log_post(h.row).val)

====
